---- MODULE Spec2Model ----
(***************************************************************************)
(* Model of app.py, the POKT tracker bot: the webhook command handler, the *)
(* monitor_stop_event flag, and the monitor_pokt polling threads.          *)
(*                                                                         *)
(* Python dicts are TLA+ functions whose DOMAIN is the set of keys that    *)
(* are present, so d.get(k, default) is Get(d, k, default).                *)
(* Amounts in uPOKT exceed 32 bits; a number n is kept as the pair         *)
(* pokt * 1000000 + upokt with 0 <= upokt < 1000000.                       *)
(***************************************************************************)
EXTENDS Integers, Sequences, FiniteSets, Bags

\* ---------------------------------------------------------------- bounds
\* at most this many monitor_pokt threads exist at once
MaxLoops == 2
\* at most this many /monitor requests are between line 150 and line 155
MaxHandlers == 2
\* a transaction list has at most this many records
MaxTxs == 3
\* a feed has at most this many entries
MaxEntries == 6

\* ---------------------------------------------------------------- values
\* TELEGRAM_CHAT_ID, the fixed destination of alerts (app.py line 12)
TELEGRAM_CHAT_ID == 101
\* chat identifiers of inbound messages
Chats == {202}

\* Python's None where a string is expected
None == "None"
\* the empty dict {}
EmptyDict == <<>>

Get(d, k, default) == IF k \in DOMAIN d THEN d[k] ELSE default

\* a number q * 1000000 + r
Num(q, r) == [t |-> "num", pokt |-> q, upokt |-> r]

\* ------------------------------------------------- fetch_pokt_transactions
StubTx ==
  [hash |-> "abc123",
   stdTx |-> [msg |-> [value |-> [amount |-> Num(150000, 0),
                                  from_address |-> "0x1111...",
                                  to_address |-> "0x1234..."]],
              time |-> "2025-05-29T09:20:00"]]

\* further records a transaction source can supply: one just below the
\* threshold and one exactly on it, sent to an address outside the table
SmallTx ==
  [hash |-> "def456",
   stdTx |-> [msg |-> [value |-> [amount |-> Num(99999, 999999),
                                  from_address |-> "0x2222...",
                                  to_address |-> "0x5678..."]],
              time |-> "2025-05-29T09:21:00"]]

EdgeTx ==
  [hash |-> "ghi789",
   stdTx |-> [msg |-> [value |-> [amount |-> Num(100000, 0),
                                  from_address |-> "0x3333...",
                                  to_address |-> "0x9999..."]],
              time |-> "2025-05-29T09:22:00"]]

\* records that lack one of the fields detect_large_movements reads, and one
\* whose amount is null
NoToTx ==
  [hash |-> "jkl012",
   stdTx |-> [msg |-> [value |-> [amount |-> Num(150000, 0),
                                  from_address |-> "0x4444..."]]]]

NoFromTx ==
  [hash |-> "mno345",
   stdTx |-> [msg |-> [value |-> [amount |-> Num(150000, 0),
                                  to_address |-> "0x5678..."]]]]

NoAmountTx ==
  [hash |-> "pqr678",
   stdTx |-> [msg |-> [value |-> [from_address |-> "0x5555...",
                                  to_address |-> "0x1234..."]]]]

NullAmountTx ==
  [hash |-> "stu901",
   stdTx |-> [msg |-> [value |-> [amount |-> [t |-> "none"],
                                  from_address |-> "0x6666...",
                                  to_address |-> "0x1234..."]]]]

\* what fetch_pokt_transactions() returns: the list of line 24, the empty
\* list of line 41, or a longer list once a real endpoint replaces the stub
FetchResults == {<<>>, <<StubTx>>, <<StubTx, SmallTx, EdgeTx>>}

\* ------------------------------------------------- detect_large_movements
Threshold == 100000

\* float(x): raises for anything that is not a number
IsNumber(x) == x.t = "num"

\* float(x) / 1_000_000: the uPOKT count q * 1000000 + r is q POKT and r
\* millionths
ToPokt(x) == [t |-> "float", whole |-> x.pokt, millionths |-> x.upokt]

\* mutant: the comparison is strict
AtLeast_Strict(amount, threshold) ==
  amount.whole > threshold \/ (amount.whole = threshold /\ amount.millionths > 0)

\* amount >= threshold, threshold a whole number
AtLeast(amount, threshold) == amount.whole >= threshold

Value(tx) == Get(Get(Get(tx, "stdTx", EmptyDict), "msg", EmptyDict), "value", EmptyDict)

Movement(tx) ==
  [tx_hash |-> Get(tx, "hash", None),
   amount  |-> ToPokt(Get(Value(tx), "amount", Num(0, 0))),
   from    |-> Get(Value(tx), "from_address", None),
   to      |-> Get(Value(tx), "to_address", None),
   time    |-> Get(tx, "time", None)]

RECURSIVE detect_large_movements(_, _)
detect_large_movements(transactions, threshold) ==
  IF transactions = <<>> THEN <<>>
  ELSE LET tx == Head(transactions)
           rest == detect_large_movements(Tail(transactions), threshold)
           amount == Get(Value(tx), "amount", Num(0, 0))
       IN IF ~IsNumber(amount) THEN rest
          ELSE IF AtLeast(ToPokt(amount), threshold)
               THEN <<Movement(tx)>> \o rest
               ELSE rest

\* ---------------------------------------------------- check_exchange_wallet
known_exchanges == [a \in {"0x1234...", "0x5678..."} |->
                      IF a = "0x1234..." THEN "Binance" ELSE "Coinbase"]

\* mutant: the lookup has no default
check_exchange_wallet_NoDefault(address) == Get(known_exchanges, address, None)

check_exchange_wallet(address) == Get(known_exchanges, address, "Unknown")

\* ----------------------------------------------------- fetch_migration_news
\* a title is a sequence of characters
UpperCase == <<"A", "B", "C", "D", "E", "F", "G", "H", "I", "J", "K", "L", "M",
               "N", "O", "P", "Q", "R", "S", "T", "U", "V", "W", "X", "Y", "Z">>
LowerCase == <<"a", "b", "c", "d", "e", "f", "g", "h", "i", "j", "k", "l", "m",
               "n", "o", "p", "q", "r", "s", "t", "u", "v", "w", "x", "y", "z">>

\* str.lower()
LowerChar(c) ==
  IF \E k \in 1..26 : UpperCase[k] = c
  THEN LowerCase[CHOOSE k \in 1..26 : UpperCase[k] = c]
  ELSE c
Lower(title) == [k \in 1..Len(title) |-> LowerChar(title[k])]

\* `keyword in title`
Contains(title, keyword) ==
  \E k \in 1..(Len(title) - Len(keyword) + 1) :
     SubSeq(title, k, k + Len(keyword) - 1) = keyword

KwShannon == <<"s", "h", "a", "n", "n", "o", "n">>
KwUpgrade == <<"u", "p", "g", "r", "a", "d", "e">>

\* line 75
Matches(title) ==
  Contains(Lower(title), KwShannon) \/ Contains(Lower(title), KwUpgrade)

NoNews == [tpl |-> "None"]

NewsMessage(entry) == [tpl |-> "news", title |-> entry.title, link |-> entry.link]

RECURSIVE FirstMatch(_)
FirstMatch(entries) ==
  IF entries = <<>> THEN NoNews
  ELSE IF Matches(Head(entries).title) THEN NewsMessage(Head(entries))
       ELSE FirstMatch(Tail(entries))

\* mutant: every entry of the feed is inspected
fetch_migration_news_NoLimit(feed) ==
  IF ~feed.ok THEN NoNews ELSE FirstMatch(feed.entries)

\* feed = [ok |-> whether feedparser.parse returned, entries |-> feed.entries]
fetch_migration_news(feed) ==
  IF ~feed.ok THEN NoNews
  ELSE FirstMatch(SubSeq(feed.entries, 1, IF Len(feed.entries) < 5 THEN Len(feed.entries) ELSE 5))

EntryShannon == [title |-> <<"S", "h", "a", "n", "n", "o", "n", " ", "m", "a", "i", "n", "n", "e", "t", " ", "l", "a", "u", "n", "c", "h">>, link |-> "l1"]
EntryUnrelated == [title |-> <<"U", "n", "r", "e", "l", "a", "t", "e", "d", " ", "u", "p", "d", "a", "t", "e">>, link |-> "l2"]
EntryUpgraded == [title |-> <<"P", "O", "K", "T", " ", "U", "P", "G", "R", "A", "D", "E", "D">>, link |-> "l3"]

Feeds ==
  {[ok |-> FALSE, entries |-> <<>>],
   [ok |-> TRUE, entries |-> <<EntryUnrelated>>],
   [ok |-> TRUE, entries |-> <<EntryShannon, EntryUnrelated>>]}

\* ------------------------------------------------------------- messages
\* one call send_telegram_message(chat_id, message)
Send(chat_id, message) == [chat_id |-> chat_id, text |-> message]

\* what the transport does with one requests.post: a 2xx answer with a JSON
\* body, an HTTP error status (raise_for_status raises HTTPError), or no
\* answer at all (requests.post raises ConnectionError or Timeout)
Transports ==
  {[kind |-> "ok", body |-> [ok |-> TRUE, result |-> "message"]],
   [kind |-> "http", error |-> "400 Client Error"],
   [kind |-> "http", error |-> "403 Client Error"],
   [kind |-> "connection", error |-> "Connection refused"],
   [kind |-> "timeout", error |-> "Read timed out"]}

Post(chat_id, message) ==
  [url |-> "sendMessage", json |-> [chat_id |-> chat_id, text |-> message]]

\* mutant: a failed post is tried once more
send_telegram_message_Retry(chat_id, message, transport) ==
  [posts |-> IF transport.kind = "ok" THEN <<Post(chat_id, message)>>
             ELSE <<Post(chat_id, message), Post(chat_id, message)>>,
   raised |-> FALSE,
   ret |-> IF transport.kind = "ok" THEN transport.body
           ELSE [ok |-> FALSE, description |-> transport.error]]

\* the whole function: the posts it makes, whether an exception leaves it,
\* and what it returns
send_telegram_message(chat_id, message, transport) ==
  [posts |-> <<Post(chat_id, message)>>,
   raised |-> FALSE,
   ret |-> IF transport.kind = "ok" THEN transport.body
           ELSE [ok |-> FALSE, description |-> transport.error]]

\* '{amount:.2f}': whole part and hundredths, rounded
Format2f(amount) ==
  LET cents == (amount.millionths + 5000) \div 10000
  IN IF cents = 100 THEN <<amount.whole + 1, 0>> ELSE <<amount.whole, cents>>

AlertMessage(movement) ==
  [tpl |-> "alert",
   amount |-> Format2f(movement.amount),
   from |-> movement.from,
   to |-> movement.to,
   to_exchange |-> check_exchange_wallet(movement.to),
   time |-> movement.time,
   tx_hash |-> movement.tx_hash]

MsgStart == [tpl |-> "hello, this is the POKT tracker bot, see /help"]
MsgHelp == [tpl |-> "available commands: /start /help /status /monitor /stop"]
MsgStatus == [tpl |-> "server status: running normally"]
MsgAlready == [tpl |-> "POKT monitoring is already running"]
MsgStarted == [tpl |-> "POKT monitoring has started"]
MsgStopped == [tpl |-> "POKT monitoring has stopped"]
MsgTest == [tpl |-> "test message: the server works"]
MsgEcho(text) == [tpl |-> "received message: {text}", text |-> text]


\* ------------------------------------------------------- inbound payloads
\* request.get_json(): None, or the parsed body
NoJson == [t |-> "none"]
Json(v) == [t |-> "json", v |-> v]

Texts == {"/start", "/help", "/status", "/monitor", "/stop", "hello"}

Message(c, text) == Json([message |-> [chat |-> [id |-> c], text |-> text]])
MessageNoText(c) == Json([message |-> [chat |-> [id |-> c]]])

\* bodies without the message structure: no JSON, {} and an update of
\* another kind
Malformed == {NoJson, Json(EmptyDict), Json([update_id |-> 7])}

Updates ==
  Malformed \cup {Message(c, t) : c \in Chats, t \in Texts}
            \cup {MessageNoText(c) : c \in Chats}

\* `not update` (line 135)
Falsy(update) == IF update.t = "none" THEN TRUE ELSE DOMAIN update.v = {}

\* `"message" in update` (line 140)
HasMessage(update) == IF Falsy(update) THEN FALSE ELSE "message" \in DOMAIN update.v

chat_id(update) == update.v["message"]["chat"]["id"]
text(update) == Get(update.v["message"], "text", "")

\* mutant: the fallback branch answers without the received text
reply_NoEcho(t) ==
  CASE t = "/start" -> MsgStart
    [] t = "/help" -> MsgHelp
    [] t = "/status" -> MsgStatus
    [] OTHER -> [tpl |-> "received message"]

\* the branches of lines 143-148 and 159-160
reply(t) ==
  CASE t = "/start" -> MsgStart
    [] t = "/help" -> MsgHelp
    [] t = "/status" -> MsgStatus
    [] OTHER -> MsgEcho(t)

\* ------------------------------------------------------------------ state
VARIABLES
  server,              \* "boot", "registered", "refused", "up" (app.run accepts
                       \* requests), "down" (the process ended at line 182) or
                       \* "crashed" (an exception ended it)
  monitor_stop_event,  \* the Event's flag: TRUE once set(), FALSE after clear()
  threads,             \* bag of running monitor_pokt threads
  requests,            \* bag of /monitor requests between lines 150 and 155
  ev,                  \* what the last step sent and answered
  fresh,               \* history: no webhook request has been received yet
  started,             \* history: a thread was started and no /stop came since
  call                 \* a call of one function on its own: arguments and result

vars == <<server, monitor_stop_event, threads, requests, ev, fresh, started, call>>

\* no function is called on its own
NoCall == [fn |-> "none"]

\* a thread at the top of `while` (line 99)
NewThread == [pc |-> "check", large_movements |-> <<>>, i |-> 0, news |-> NoNews,
              stopped |-> FALSE]

\* op: which entry point produced the step; update, status: the request it
\* answered and the HTTP status; sent: the send_telegram_message calls it
\* made; first: it answered the first webhook request since startup; was:
\* the value of monitor_stop_event.is_set() the handler met; failed: an I/O
\* call of a monitor_pokt step took its except branch (the handlers and the
\* loop discard what send_telegram_message returns, so the outcome of a send
\* is kept for the loop's steps only)
Event(op, update, sent, status, first, was) ==
  [op |-> op, update |-> update, sent |-> sent, status |-> status,
   first |-> first, was |-> was, failed |-> FALSE]

Failed(e) == [e EXCEPT !.failed = TRUE]

\* a step that sends nothing and answers nothing
Tau == Event("tau", NoJson, <<>>, 0, FALSE, FALSE)

NumLoops == BagCardinality(threads)

Put(bag, r) == bag (+) SetToBag({r})
Take(bag, r) == bag (-) SetToBag({r})

Init ==
  /\ server = "boot"
  /\ monitor_stop_event = FALSE
  /\ threads = EmptyBag
  /\ requests = EmptyBag
  /\ ev = Tau
  /\ fresh = TRUE
  /\ started = FALSE
  /\ call = NoCall

\* ------------------------------------------------------------- __main__
\* lines 164-175: the registration is answered with ok, answered with not
\* ok, or requests.post / response.json() raises and the process ends
set_telegram_webhook ==
  /\ server = "boot"
  /\ \E result \in {"ok", "not ok", "raised"} :
       server' = CASE result = "ok" -> "registered"
                   [] result = "not ok" -> "refused"
                   [] OTHER -> "crashed"
  /\ ev' = Tau
  /\ UNCHANGED <<monitor_stop_event, threads, requests, fresh, started, call>>

\* mutant: the server is started whatever the registration returned
main_Unconditional ==
  /\ server \in {"registered", "refused"}
  /\ server' = "up"
  /\ ev' = Tau
  /\ UNCHANGED <<monitor_stop_event, threads, requests, fresh, started, call>>

\* lines 178-182: app.run only if set_telegram_webhook() returned True,
\* otherwise a message is printed and the process ends
main ==
  /\ server \in {"registered", "refused"}
  /\ server' = IF server = "registered" THEN "up" ELSE "down"
  /\ ev' = Tau
  /\ UNCHANGED <<monitor_stop_event, threads, requests, fresh, started, call>>

\* ------------------------------------------------------------- /test
test ==
  /\ server = "up"
  /\ ev' = Event("test", NoJson, <<Send(TELEGRAM_CHAT_ID, MsgTest)>>, 200, FALSE, FALSE)
  /\ UNCHANGED <<server, monitor_stop_event, threads, requests, fresh, started, call>>

\* ------------------------------------------------------------- /webhook
\* mutant: the empty body is let through to "ok"
WebhookInvalid_Ok(update) ==
  /\ server = "up"
  /\ Falsy(update)
  /\ ev' = Event("webhook", update, <<>>, 200, fresh, monitor_stop_event)
  /\ fresh' = FALSE
  /\ UNCHANGED <<server, monitor_stop_event, threads, requests, started, call>>

\* lines 134-137
WebhookInvalid(update) ==
  /\ server = "up"
  /\ Falsy(update)
  /\ ev' = Event("webhook", update, <<>>, 400, fresh, monitor_stop_event)
  /\ fresh' = FALSE
  /\ UNCHANGED <<server, monitor_stop_event, threads, requests, started, call>>

\* lines 140 and 161: a body without "message" falls through to "ok"
WebhookNoMessage(update) ==
  /\ server = "up"
  /\ ~Falsy(update)
  /\ ~HasMessage(update)
  /\ ev' = Event("webhook", update, <<>>, 200, fresh, monitor_stop_event)
  /\ fresh' = FALSE
  /\ UNCHANGED <<server, monitor_stop_event, threads, requests, started, call>>

\* mutant: a plain command also clears the flag
WebhookReply_Clears(update) ==
  /\ server = "up"
  /\ HasMessage(update)
  /\ text(update) \notin {"/monitor", "/stop"}
  /\ ev' = Event("webhook", update,
                 <<Send(chat_id(update), reply(text(update)))>>, 200, fresh,
                 monitor_stop_event)
  /\ monitor_stop_event' = FALSE
  /\ fresh' = FALSE
  /\ UNCHANGED <<server, threads, requests, started, call>>

\* lines 143-148 and 159-161
WebhookReply(update) ==
  /\ server = "up"
  /\ HasMessage(update)
  /\ text(update) \notin {"/monitor", "/stop"}
  /\ ev' = Event("webhook", update,
                 <<Send(chat_id(update), reply(text(update)))>>, 200, fresh, monitor_stop_event)
  /\ fresh' = FALSE
  /\ UNCHANGED <<server, monitor_stop_event, threads, requests, started, call>>

\* lines 149-151: the flag is read; Running is answered at once, Stopped
\* leaves the request before line 153
WebhookMonitor(update) ==
  /\ server = "up"
  /\ HasMessage(update)
  /\ text(update) = "/monitor"
  /\ IF ~monitor_stop_event
     THEN /\ ev' = Event("webhook", update,
                         <<Send(chat_id(update), MsgAlready)>>, 200, fresh, monitor_stop_event)
          /\ UNCHANGED requests
     ELSE /\ BagCardinality(requests) < MaxHandlers
          /\ requests' = Put(requests, [pc |-> "clear", chat_id |-> chat_id(update),
                                        first |-> fresh])
          /\ ev' = Tau
  /\ fresh' = FALSE
  /\ UNCHANGED <<server, monitor_stop_event, threads, started, call>>

\* line 153
MonitorClear(r) ==
  /\ r.pc = "clear"
  /\ monitor_stop_event' = FALSE
  /\ requests' = Put(Take(requests, r), [r EXCEPT !.pc = "spawn"])
  /\ ev' = Tau
  /\ UNCHANGED <<server, threads, fresh, started, call>>

\* lines 154-155 and 161
MonitorSpawn(r) ==
  /\ r.pc = "spawn"
  /\ NumLoops < MaxLoops
  /\ threads' = Put(threads, NewThread)
  /\ requests' = Take(requests, r)
  /\ started' = TRUE
  /\ ev' = Event("webhook", Message(r.chat_id, "/monitor"),
                 <<Send(r.chat_id, MsgStarted)>>, 200, r.first, TRUE)
  /\ UNCHANGED <<server, monitor_stop_event, fresh, call>>

\* history: a /stop reaches the threads that are in time.sleep
MarkSleeping(r) == IF r.pc = "sleep" THEN [r EXCEPT !.stopped = TRUE] ELSE r

\* mutant: the reply is sent but the event is not set
WebhookStop_NoSet(update) ==
  /\ server = "up"
  /\ HasMessage(update)
  /\ text(update) = "/stop"
  /\ ev' = Event("webhook", update, <<Send(chat_id(update), MsgStopped)>>, 200, fresh,
                 monitor_stop_event)
  /\ fresh' = FALSE
  /\ UNCHANGED <<server, monitor_stop_event, threads, requests, started, call>>

\* lines 156-158 and 161
WebhookStop(update) ==
  /\ server = "up"
  /\ HasMessage(update)
  /\ text(update) = "/stop"
  /\ monitor_stop_event' = TRUE
  /\ threads' = BagOfAll(MarkSleeping, threads)
  /\ started' = FALSE
  /\ ev' = Event("webhook", update, <<Send(chat_id(update), MsgStopped)>>, 200, fresh, monitor_stop_event)
  /\ fresh' = FALSE
  /\ UNCHANGED <<server, requests, call>>

\* ------------------------------------------------------------ monitor_pokt
Step(r, r2) == threads' = Put(Take(threads, r), r2)

\* line 99: the flag is read at the top of every cycle
\* mutant: the loop condition is never false
LoopCheck_Forever(r) ==
  /\ r.pc = "check"
  /\ Step(r, [r EXCEPT !.pc = "fetch"])
  /\ ev' = Tau
  /\ UNCHANGED <<server, monitor_stop_event, requests, fresh, started, call>>

LoopCheck(r) ==
  /\ r.pc = "check"
  /\ IF monitor_stop_event
     THEN /\ threads' = Take(threads, r)
          /\ ev' = Event("exit", NoJson, <<>>, 0, FALSE, FALSE)
     ELSE /\ Step(r, [r EXCEPT !.pc = "fetch"])
          /\ ev' = Tau
  /\ UNCHANGED <<server, monitor_stop_event, requests, fresh, started, call>>

\* lines 100-101; a failed fetch is the empty list of lines 39-41
LoopFetch(r) ==
  /\ r.pc = "fetch"
  /\ \E ok \in BOOLEAN : \E fetched \in FetchResults :
       LET transactions == IF ok THEN fetched ELSE <<>>
           large_movements == detect_large_movements(transactions, Threshold)
       IN /\ Step(r, [r EXCEPT !.large_movements = large_movements,
                               !.i = IF large_movements = <<>> THEN 0 ELSE 1,
                               !.pc = IF large_movements = <<>> THEN "news" ELSE "alert",
                               !.stopped = FALSE])
          /\ ev' = IF ok THEN Tau ELSE Failed(Tau)
  /\ UNCHANGED <<server, monitor_stop_event, requests, fresh, started, call>>

\* mutant: a send that fails ends the thread
LoopAlert_Raises(r) ==
  /\ r.pc = "alert"
  /\ \E ok \in BOOLEAN :
       LET e == Event("loop", NoJson,
                      <<Send(TELEGRAM_CHAT_ID, AlertMessage(r.large_movements[r.i]))>>,
                      0, FALSE, FALSE)
       IN /\ ev' = IF ok THEN e ELSE Failed(e)
          /\ IF ~ok THEN threads' = Take(threads, r)
             ELSE IF r.i < Len(r.large_movements)
                  THEN Step(r, [r EXCEPT !.i = r.i + 1])
                  ELSE Step(r, [r EXCEPT !.pc = "news", !.large_movements = <<>>, !.i = 0])
  /\ UNCHANGED <<server, monitor_stop_event, requests, fresh, started, call>>

\* lines 102-112, one movement per step; the send may fail (lines 90-92)
LoopAlert(r) ==
  /\ r.pc = "alert"
  /\ \E ok \in BOOLEAN :
       LET e == Event("loop", NoJson,
                      <<Send(TELEGRAM_CHAT_ID, AlertMessage(r.large_movements[r.i]))>>,
                      0, FALSE, FALSE)
       IN ev' = IF ok THEN e ELSE Failed(e)
  /\ IF r.i < Len(r.large_movements)
     THEN Step(r, [r EXCEPT !.i = r.i + 1])
     ELSE Step(r, [r EXCEPT !.pc = "news", !.large_movements = <<>>, !.i = 0])
  /\ UNCHANGED <<server, monitor_stop_event, requests, fresh, started, call>>

\* lines 114-115; without news the thread goes to sleep (line 118)
LoopNews(r) ==
  /\ r.pc = "news"
  /\ \E feed \in Feeds :
       LET news == fetch_migration_news(feed)
       IN /\ Step(r, IF news # NoNews THEN [r EXCEPT !.news = news, !.pc = "send_news"]
                     ELSE [r EXCEPT !.pc = "sleep"])
          /\ ev' = IF feed.ok THEN Tau ELSE Failed(Tau)
  /\ UNCHANGED <<server, monitor_stop_event, requests, fresh, started, call>>

\* line 116, then the thread goes to sleep (line 118)
LoopSendNews(r) ==
  /\ r.pc = "send_news"
  /\ \E ok \in BOOLEAN :
       LET e == Event("loop", NoJson, <<Send(TELEGRAM_CHAT_ID, r.news)>>, 0, FALSE, FALSE)
       IN ev' = IF ok THEN e ELSE Failed(e)
  /\ Step(r, [r EXCEPT !.pc = "sleep", !.news = NoNews])
  /\ UNCHANGED <<server, monitor_stop_event, requests, fresh, started, call>>

\* mutant: after the sleep the next cycle starts without reading the flag
LoopWake_NoCheck(r) ==
  /\ r.pc = "sleep"
  /\ Step(r, [r EXCEPT !.pc = "fetch"])
  /\ ev' = Tau
  /\ UNCHANGED <<server, monitor_stop_event, requests, fresh, started, call>>

\* line 118: time.sleep(300) returns
LoopWake(r) ==
  /\ r.pc = "sleep"
  /\ Step(r, [r EXCEPT !.pc = "check"])
  /\ ev' = Tau
  /\ UNCHANGED <<server, monitor_stop_event, requests, fresh, started, call>>

\* ------------------------------------------------------------------ system
Next ==
  \/ set_telegram_webhook
  \/ main
  \/ test
  \/ \E update \in Updates : WebhookInvalid(update)
  \/ \E update \in Updates : WebhookNoMessage(update)
  \/ \E update \in Updates : WebhookReply(update)
  \/ \E update \in Updates : WebhookMonitor(update)
  \/ \E update \in Updates : WebhookStop(update)
  \/ \E r \in BagToSet(requests) : MonitorClear(r)
  \/ \E r \in BagToSet(requests) : MonitorSpawn(r)
  \/ \E r \in BagToSet(threads) : LoopCheck(r)
  \/ \E r \in BagToSet(threads) : LoopFetch(r)
  \/ \E r \in BagToSet(threads) : LoopAlert(r)
  \/ \E r \in BagToSet(threads) : LoopNews(r)
  \/ \E r \in BagToSet(threads) : LoopSendNews(r)
  \/ \E r \in BagToSet(threads) : LoopWake(r)

Spec == Init /\ [][Next]_vars

\* every step of a monitor_pokt thread ends: the thread is scheduled, the
\* calls it makes return and time.sleep(300) is over after 300 seconds.
\* Nothing makes a request arrive, so the handlers carry no fairness.
LoopFairness ==
  /\ WF_vars(\E r \in BagToSet(threads) : LoopCheck(r))
  /\ WF_vars(\E r \in BagToSet(threads) : LoopFetch(r))
  /\ WF_vars(\E r \in BagToSet(threads) : LoopAlert(r))
  /\ WF_vars(\E r \in BagToSet(threads) : LoopNews(r))
  /\ WF_vars(\E r \in BagToSet(threads) : LoopSendNews(r))
  /\ WF_vars(\E r \in BagToSet(threads) : LoopWake(r))

SpecFair == Spec /\ LoopFairness

\* ---------------------------------------------------- the functions alone
\* each function of the module called once on its own, with arguments drawn
\* from bounded sets; the server is not started
RECURSIVE SeqsUpTo(_, _)
SeqsUpTo(S, n) ==
  IF n = 0 THEN {<<>>}
  ELSE LET shorter == SeqsUpTo(S, n - 1)
       IN shorter \cup {Append(q, x) : q \in shorter, x \in S}

TxPool == {StubTx, SmallTx, EdgeTx, NoToTx, NoFromTx, NoAmountTx, NullAmountTx}
Thresholds == {0, Threshold, 150000}
EntryPool == {EntryShannon, EntryUnrelated, EntryUpgraded}
Addresses == {"0x1234...", "0x5678...", "0x1111...", "0x9999...", None}
SendMessages == {MsgTest, MsgStarted, AlertMessage(Movement(StubTx))}

Calls ==
  {[fn |-> "send", chat_id |-> c, message |-> m, transport |-> t, done |-> FALSE] :
      c \in Chats \cup {TELEGRAM_CHAT_ID}, m \in SendMessages, t \in Transports}
  \cup {[fn |-> "detect", transactions |-> txs, threshold |-> th, done |-> FALSE] :
      txs \in SeqsUpTo(TxPool, MaxTxs), th \in Thresholds}
  \cup {[fn |-> "news", feed |-> [ok |-> ok, entries |-> es], done |-> FALSE] :
      ok \in BOOLEAN, es \in SeqsUpTo(EntryPool, MaxEntries)}
  \cup {[fn |-> "classify", address |-> a, done |-> FALSE] : a \in Addresses}

InitCalls ==
  /\ server = "boot"
  /\ monitor_stop_event = FALSE
  /\ threads = EmptyBag
  /\ requests = EmptyBag
  /\ ev = Tau
  /\ fresh = TRUE
  /\ started = FALSE
  /\ call \in Calls

Return(out) ==
  /\ ~call.done
  /\ call' = [fn |-> call.fn, args |-> call, done |-> TRUE, out |-> out]
  /\ UNCHANGED <<server, monitor_stop_event, threads, requests, ev, fresh, started>>

CallSend ==
  /\ call.fn = "send"
  /\ Return(send_telegram_message(call.chat_id, call.message, call.transport))

CallDetect ==
  /\ call.fn = "detect"
  /\ Return(detect_large_movements(call.transactions, call.threshold))

CallNews ==
  /\ call.fn = "news"
  /\ Return(fetch_migration_news(call.feed))

CallClassify ==
  /\ call.fn = "classify"
  /\ Return(check_exchange_wallet(call.address))

NextCalls == CallSend \/ CallDetect \/ CallNews \/ CallClassify

SpecCalls == InitCalls /\ [][NextCalls]_vars

\* ------------------------------------------------------------- properties
\* the last step answered a webhook request whose text is t
Handled(e, t) ==
  IF e.op = "webhook" /\ HasMessage(e.update) THEN text(e.update) = t ELSE FALSE

\* the threads without the history field
Unmarked(r) == [r EXCEPT !.stopped = FALSE]
Program(ts) == BagOfAll(Unmarked, ts)

\* C1: in every reachable state at most one monitor_pokt thread is active
\* (spawned and not yet returned).
C1_AtMostOneLoop == NumLoops <= 1

\* C2: the monitor is Stopped at process start: when the first command
\* handled after startup is /monitor, it is answered "monitoring has
\* started" and exactly one polling loop exists.
C2_FirstMonitorStarts ==
  (ev.first /\ Handled(ev, "/monitor")) =>
     /\ ev.sent = <<Send(ev.update.v["message"]["chat"]["id"], MsgStarted)>>
     /\ NumLoops = 1

\* C3: of the /monitor requests handled while the monitor is Stopped exactly
\* one spawns a polling loop: a thread is never started while an earlier
\* start stands (a thread was started and no /stop was handled since).
C3_NoDoubleStart == [][NumLoops' > NumLoops => ~started]_vars

\* C4: a thread that was in its sleep when a /stop was processed terminates
\* at its next check of the flag: it never begins another cycle.
C4_StopTakesEffectAtWake ==
  \A r \in BagToSet(threads) : r.stopped => r.pc \in {"sleep", "check"}

\* a /monitor request read the flag in this step: it was answered "already
\* running" at once, or it went on to line 153
MonitorChecked ==
  \/ BagCardinality(requests') > BagCardinality(requests)
  \/ Handled(ev', "/monitor") /\ requests' = requests

\* C5: a /monitor handled while Running (the flag reads Running, a start
\* succeeded and no /stop was handled since) spawns no thread, leaves the
\* flag Running, leaves the number of active loops at one and is answered
\* "already running".
C5_MonitorWhileRunningIsNoOp ==
  [][(started /\ ~monitor_stop_event /\ MonitorChecked) =>
        /\ Handled(ev', "/monitor")
        /\ ev'.sent = <<Send(ev'.update.v["message"]["chat"]["id"], MsgAlready)>>
        /\ threads' = threads
        /\ requests' = requests
        /\ ~monitor_stop_event'
        /\ NumLoops' = 1]_vars

\* C6: a /stop is valid in every state: after it the flag reads Stopped,
\* whether it read Running or Stopped before; it starts no thread, ends no
\* thread, is answered ok and sends exactly one reply, the stop message, to
\* the requester; handled while Stopped it leaves the flag as it was.
C6_StopAlwaysValid ==
  [][Handled(ev', "/stop") =>
        /\ monitor_stop_event'
        /\ (monitor_stop_event => monitor_stop_event' = monitor_stop_event)
        /\ Program(threads') = Program(threads)
        /\ requests' = requests
        /\ ev'.status = 200
        /\ ev'.sent = <<Send(ev'.update.v["message"]["chat"]["id"], MsgStopped)>>]_vars

\* a /stop was handled while the flag already read Stopped and a thread
\* was still alive
C6_Witness ==
  Handled(ev, "/stop") /\ ev.was /\ monitor_stop_event /\ NumLoops >= 1

\* C7 as stated: every payload without the message structure (no JSON body,
\* the empty object, a non-empty object without "message") is answered with
\* a client error and sends no notification.
C7_MalformedRejected ==
  (ev.op = "webhook" /\ ~HasMessage(ev.update)) =>
     (ev.status = 400 /\ ev.sent = <<>>)

\* C7 amended: a payload with no JSON body or the empty object is answered
\* with the client error 400, a non-empty object without "message" is
\* answered ok (200); none of the three sends a notification.
C7_MalformedAnswered ==
  (ev.op = "webhook" /\ ~HasMessage(ev.update)) =>
     /\ ev.sent = <<>>
     /\ ev.update \in {NoJson, Json(EmptyDict)} => ev.status = 400
     /\ ev.update \notin {NoJson, Json(EmptyDict)} => ev.status = 200

\* a non-empty object without "message" was answered ok
C7_Witness ==
  ev.op = "webhook" /\ ev.update = Json([update_id |-> 7]) /\ ev.status = 200

Commands == {"/start", "/help", "/status", "/monitor", "/stop"}

\* C8: a webhook request that carries a message with a chat identifier makes
\* exactly one notifier call, addressed to that chat identifier, whatever
\* the text and the monitor state; a text outside the five commands (an
\* absent text is the empty text) is answered with a reply containing it.
C8_OneReplyToSender ==
  (ev.op = "webhook" /\ HasMessage(ev.update)) =>
     LET message == ev.update.v["message"]
         t == IF "text" \in DOMAIN message THEN message["text"] ELSE ""
     IN /\ Len(ev.sent) = 1
        /\ ev.sent[1].chat_id = message["chat"]["id"]
        /\ ev.status = 200
        /\ t \notin Commands => ev.sent[1].text = MsgEcho(t)
        /\ t \in Commands => "text" \notin DOMAIN ev.sent[1].text

\* a message without text was answered while a polling loop was running
C8_Witness ==
  /\ ev.op = "webhook"
  /\ ev.update \in {MessageNoText(c) : c \in Chats}
  /\ Len(ev.sent) = 1
  /\ NumLoops >= 1
  /\ ~monitor_stop_event

\* the last step answered a webhook request other than /monitor and /stop
OtherHandled(e) ==
  e.op = "webhook" /\ ~Handled(e, "/monitor") /\ ~Handled(e, "/stop")

\* C9: the flag and the set of active loops change only through /monitor and
\* /stop: handling /start, /help, /status, another text, a message without
\* text or a malformed payload leaves the flag, the threads and the pending
\* starts unchanged; the flag changes only in a step of a /stop or a
\* /monitor request, and a thread is added only by a /monitor request.
C9_OnlyMonitorAndStopChangeState ==
  [][/\ OtherHandled(ev') =>
          /\ monitor_stop_event' = monitor_stop_event
          /\ threads' = threads
          /\ requests' = requests
     /\ monitor_stop_event' # monitor_stop_event =>
          \/ Handled(ev', "/stop")
          \/ BagCardinality(requests') = BagCardinality(requests) /\ requests' # requests
     /\ NumLoops' > NumLoops =>
          Handled(ev', "/monitor") /\ BagCardinality(requests') < BagCardinality(requests)
    ]_vars

\* /help was answered while a polling loop was running
C9_Witness ==
  Handled(ev, "/help") /\ NumLoops >= 1 /\ ~monitor_stop_event

\* thread r took a step of its own and became r2
Stepped(r, r2) ==
  /\ threads' = Put(Take(threads, r), r2)
  /\ Unmarked(r) # Unmarked(r2)

LoopSent == IF ev'.op = "loop" THEN ev'.sent ELSE <<>>

\* the order of one cycle, step by step
NextInCycle(r, r2) ==
  CASE r.pc = "check" ->
         /\ ~monitor_stop_event
         /\ r2.pc = "fetch"
         /\ LoopSent = <<>>
    [] r.pc = "fetch" ->
         /\ \E transactions \in FetchResults :
              r2.large_movements = detect_large_movements(transactions, Threshold)
         /\ IF r2.large_movements = <<>> THEN r2.pc = "news"
            ELSE r2.pc = "alert" /\ r2.i = 1
         /\ LoopSent = <<>>
    [] r.pc = "alert" ->
         /\ LoopSent = <<Send(TELEGRAM_CHAT_ID, AlertMessage(r.large_movements[r.i]))>>
         /\ IF r.i < Len(r.large_movements)
            THEN r2.pc = "alert" /\ r2.i = r.i + 1
                 /\ r2.large_movements = r.large_movements
            ELSE r2.pc = "news"
    [] r.pc = "news" ->
         /\ LoopSent = <<>>
         /\ IF r2.news = NoNews THEN r2.pc = "sleep" ELSE r2.pc = "send_news"
    [] r.pc = "send_news" ->
         /\ LoopSent = <<Send(TELEGRAM_CHAT_ID, r.news)>>
         /\ r2.pc = "sleep"
    [] r.pc = "sleep" ->
         /\ LoopSent = <<>>
         /\ r2.pc = "check"
    [] OTHER -> FALSE

\* C10: each cycle of a running loop goes fetch and detect, then one
\* notification per detected movement in order, each to TELEGRAM_CHAT_ID,
\* then the news check, then at most one news notification to
\* TELEGRAM_CHAT_ID, sent only if there is news, then the sleep; a cycle
\* starts only from the check of the flag, and only if it reads Running; a
\* thread sends nothing in any other step.
C10_CycleOrder ==
  [][/\ \A r \in BagToSet(threads) : \A r2 \in BagToSet(threads') :
          Stepped(r, r2) => NextInCycle(r, r2)
     /\ ev'.op = "loop" =>
          \E r \in BagToSet(threads) : \E r2 \in BagToSet(threads') :
             Stepped(r, r2) /\ r.pc \in {"alert", "send_news"}
    ]_vars

\* the second of two alerts of a cycle has just been sent and the news check
\* is next
C10_Witness ==
  /\ ev.op = "loop"
  /\ ~ev.failed
  /\ ev.sent = <<Send(TELEGRAM_CHAT_ID, AlertMessage(Movement(EdgeTx)))>>
  /\ \E r \in BagToSet(threads) : r.pc = "news"

\* C11: a transient I/O failure inside a cycle (the fetch, the feed or a
\* send) never ends the polling thread and never changes the flag: the
\* failed fetch yields no movements, the failed feed yields no news, and the
\* thread goes on to the next step of its cycle.
C11_FailureNeverFatal ==
  [][ev'.failed =>
        /\ monitor_stop_event' = monitor_stop_event
        /\ NumLoops' = NumLoops
        /\ \E r \in BagToSet(threads) : \E r2 \in BagToSet(threads') :
             /\ Stepped(r, r2)
             /\ NextInCycle(r, r2)
             /\ r.pc = "fetch" => (r2.large_movements = <<>> /\ r2.pc = "news")
             /\ r.pc = "news" => (r2.news = NoNews /\ r2.pc = "sleep")
    ]_vars

\* the send of the first of two alerts has failed and the second is next
C11_Witness ==
  /\ ev.failed
  /\ ev.sent = <<Send(TELEGRAM_CHAT_ID, AlertMessage(Movement(StubTx)))>>
  /\ ~monitor_stop_event
  /\ \E r \in BagToSet(threads) : r.pc = "alert" /\ r.i = 2

\* ------------------------------------------------- properties of the calls
Returned(fn) == call.fn = fn /\ call.done

\* C12: one call of send_telegram_message makes exactly one post, carrying
\* the chat and the text it was given, never raises, and returns the
\* transport's JSON body on success and otherwise a failure result
\* {"ok": False, "description": <the error>}.
C12_OnePostAlwaysReturns ==
  Returned("send") =>
    /\ Len(call.out.posts) = 1
    /\ call.out.posts[1].json = [chat_id |-> call.args.chat_id, text |-> call.args.message]
    /\ ~call.out.raised
    /\ call.args.transport.kind = "ok" => call.out.ret = call.args.transport.body
    /\ call.args.transport.kind # "ok" =>
         call.out.ret = [ok |-> FALSE, description |-> call.args.transport.error]

\* a send whose post met an HTTP error status has returned the failure result
C12_Witness ==
  /\ Returned("send")
  /\ call.args.transport.kind = "http"
  /\ call.out.ret.ok = FALSE
  /\ call.out.ret.description = "403 Client Error"

\* the three fields detect_large_movements reads are present, the amount a
\* number
WellFormed(tx) ==
  /\ {"amount", "from_address", "to_address"} \subseteq DOMAIN tx.stdTx.msg.value
  /\ tx.stdTx.msg.value.amount.t = "num"

\* raw amount q * 1000000 + r >= threshold * 1000000, with 0 <= r < 1000000
RawAtLeast(tx, threshold) == tx.stdTx.msg.value.amount.pokt >= threshold

\* C13: on well-formed transactions detect_large_movements returns, in input
\* order, exactly the transactions whose raw amount is at least
\* threshold * 1,000,000 (inclusive), each as an alert whose amount is the raw
\* amount divided by 1,000,000 and whose from/to are the transaction's.
C13_DetectIsOrderedFilter ==
  (Returned("detect") /\ \A k \in 1..Len(call.args.transactions) :
                            WellFormed(call.args.transactions[k])) =>
    LET Large(tx) == RawAtLeast(tx, call.args.threshold)
        expected == SelectSeq(call.args.transactions, Large)
    IN /\ Len(call.out) = Len(expected)
       /\ \A k \in 1..Len(expected) :
            LET value == expected[k].stdTx.msg.value
            IN /\ call.out[k].tx_hash = expected[k].hash
               /\ call.out[k].amount.whole = value.amount.pokt
               /\ call.out[k].amount.millionths = value.amount.upokt
               /\ call.out[k].from = value.from_address
               /\ call.out[k].to = value.to_address

\* the stub list with a record just below and a record exactly on the
\* threshold: the first and the third are returned, in that order
C13_Witness ==
  /\ Returned("detect")
  /\ call.args.transactions = <<StubTx, SmallTx, EdgeTx>>
  /\ call.args.threshold = Threshold
  /\ Len(call.out) = 2
  /\ call.out[1].tx_hash = "abc123"
  /\ call.out[2].tx_hash = "ghi789"

\* C14: a transaction that lacks to_address, from_address or amount never
\* appears in what detect_large_movements returns, whatever its amount.
C14_IncompleteOmitted ==
  Returned("detect") =>
    \A k \in 1..Len(call.args.transactions) :
      LET tx == call.args.transactions[k]
      IN ~({"amount", "from_address", "to_address"} \subseteq DOMAIN tx.stdTx.msg.value) =>
           \A j \in 1..Len(call.out) : call.out[j].tx_hash # tx.hash

\* C15: fetch_migration_news looks at the first 5 entries of the feed at
\* most, in feed order, and returns the message of the first of them whose
\* title contains "shannon" or "upgrade" in any letter case; it returns None
\* when none of those entries matches, even if a later one does, and when the
\* fetch fails.
C15_FirstMatchOfFirstFive ==
  Returned("news") =>
    LET entries == call.args.feed.entries
        inspected == 1..(IF Len(entries) < 5 THEN Len(entries) ELSE 5)
        hits == {k \in inspected : Matches(entries[k].title)}
    IN IF ~call.args.feed.ok \/ hits = {}
       THEN call.out = NoNews
       ELSE LET first == CHOOSE k \in hits : \A j \in hits : k <= j
            IN call.out = [tpl |-> "news", title |-> entries[first].title,
                           link |-> entries[first].link]

\* a feed of six entries whose only matching title is the sixth: nothing is
\* returned
C15_Witness ==
  /\ Returned("news")
  /\ call.args.feed.ok
  /\ Len(call.args.feed.entries) = 6
  /\ \A k \in 1..5 : call.args.feed.entries[k] = EntryUnrelated
  /\ call.args.feed.entries[6] = EntryUpgraded
  /\ call.out = NoNews

\* C17: check_exchange_wallet maps the two addresses of its table to their
\* labels and every other address to "Unknown".
C17_ClassifyByTable ==
  Returned("classify") =>
    call.out = CASE call.args.address = "0x1234..." -> "Binance"
                 [] call.args.address = "0x5678..." -> "Coinbase"
                 [] OTHER -> "Unknown"

\* an address outside the table, and the missing address of an alert
C17_Witness ==
  /\ Returned("classify")
  /\ call.args.address \in {"0x9999...", None}
  /\ call.out = "Unknown"

\* -------------------------------------------- properties of the whole again
\* C16: the server starts accepting requests only from a registration that
\* was answered ok; after a registration answered not ok the process ends
\* without binding the server, and every request handled, every message sent
\* and every thread step happens while the server is up.
C16_ServesOnlyAfterRegistration ==
  [][/\ (server' = "up" /\ server # "up") => server = "registered"
     /\ server = "refused" => server' = "down"
     /\ (ev'.op # "tau" \/ ~fresh') => (server = "up" /\ server' = "up")
    ]_vars

\* the registration was answered not ok, the process has ended and no request
\* was handled
C16_Witness ==
  /\ server = "down"
  /\ fresh
  /\ ev = Tau
  /\ NumLoops = 0
  /\ BagCardinality(requests) = 0

\* C19: while the server runs, whenever the flag reads Running (the event is
\* not set) at least one monitor_pokt thread exists, and so an "already
\* running" reply is only sent while one exists.
C19_FlagTruthful ==
  /\ (server = "up" /\ ~monitor_stop_event) => NumLoops >= 1
  /\ (\E k \in 1..Len(ev.sent) : ev.sent[k].text = MsgAlready) => NumLoops >= 1

\* C18: if from some point on the event stays set (a /stop was handled and
\* no later /monitor cleared it), then from some point on no monitor_pokt
\* thread exists and no step of a thread sends anything: every thread ends
\* at its next test of the event.
C18_StopEndsEveryLoop ==
  <>[]monitor_stop_event => <>[](NumLoops = 0 /\ ev.op # "loop")

\* a thread has just met the set event at line 99 and returned, and it was
\* the last one
C18_Witness ==
  /\ monitor_stop_event
  /\ ev.op = "exit"
  /\ NumLoops = 0
  /\ BagCardinality(requests) = 0

=============================================================================
